---- MODULE Spec2Model ----
(***************************************************************************)
(* Model of service/internal/credentials/vault.go: the Vault-backed        *)
(* credentials provider (projects, targets, token exchange).               *)
(*                                                                         *)
(* Go strings are sequences of one-character strings, so that the path     *)
(* and policy formatting (fmt.Sprintf) is real concatenation and prefix    *)
(* matching is real matching.                                              *)
(***************************************************************************)
EXTENDS Integers, Sequences, FiniteSets, TLC

VARIABLES
    policies,   \* vaultSys: policy name -> rules text
    store,      \* vaultLogical: path -> data written there
    secretIds,  \* vaultLogical: AppRole path -> number of valid secret ids
    calls,      \* the backend calls made by the last operation, in order
    ret,        \* the last operation: its name, provider, arguments, result
    procs,      \* two requests in flight at once: each one's position
    script      \* a caller issuing a fixed sequence of requests: its position

vars == <<policies, store, secretIds, calls, ret, procs, script>>

----------------------------------------------------------------------------
(* Bounds and input sets *)

\* Secret ids one AppRole may hold (CreateProject is disabled beyond it).
MaxSecretIds == 2

ProjectNames ==
    { <<"a">>, <<"a","-","t","a","r","g","e","t","-","b">> }

TargetNames ==
    { <<"x">>, <<"b","-","t","a","r","g","e","t","-","x">> }

----------------------------------------------------------------------------
(* Strings *)

HasPrefix(s, prefix) ==
    /\ Len(prefix) <= Len(s)
    /\ SubSeq(s, 1, Len(prefix)) = prefix

HasSuffix(s, suffix) ==
    /\ Len(suffix) <= Len(s)
    /\ SubSeq(s, Len(s) - Len(suffix) + 1, Len(s)) = suffix

TrimPrefix(s, prefix) == SubSeq(s, Len(prefix) + 1, Len(s))

TrimSuffix(s, suffix) == SubSeq(s, 1, Len(s) - Len(suffix))

\* The least index at which sub occurs in s, 0 when it does not.
Index(s, sub) ==
    LET at == { i \in 1..(Len(s) - Len(sub) + 1) :
                    SubSeq(s, i, i + Len(sub) - 1) = sub }
    IN  IF at = {} THEN 0 ELSE CHOOSE i \in at : \A j \in at : i <= j

\* strings.Replace(s, old, new, 1)
Replace1(s, old, new) ==
    LET i == Index(s, old)
    IN  IF i = 0 THEN s
        ELSE SubSeq(s, 1, i - 1) \o new \o SubSeq(s, i + Len(old), Len(s))

----------------------------------------------------------------------------
(* Constants of the package *)

vaultAppRolePrefix ==
    <<"a","u","t","h","/","a","p","p","r","o","l","e","/","r","o","l","e">>

vaultProjectPrefix ==
    <<"a","r","g","o","-","c","l","o","u","d","o","p","s","-",
      "p","r","o","j","e","c","t","s">>

vaultSecretTTL == "8776h"

vaultTokenMaxTTL == "10m"

vaultTokenNumUses == 3

AdminKey == <<"a","d","m","i","n">>

LoginPath ==
    <<"a","u","t","h","/","a","p","p","r","o","l","e","/","l","o","g","i","n">>

AwsRolesPath == <<"a","w","s","/","r","o","l","e","s","/">>

AwsStsPath == <<"a","w","s","/","s","t","s","/">>

TargetInfix == <<"-","t","a","r","g","e","t","-">>

RoleIdSuffix == <<"/","r","o","l","e","-","i","d">>

SecretIdSuffix == <<"/","s","e","c","r","e","t","-","i","d">>

----------------------------------------------------------------------------
(* Errors.  A Go error value is its identity and its message: errors.Is    *)
(* compares identities, and no error of this package wraps another (%v     *)
(* formats the cause's message into a new error).                          *)

Nil == [id |-> "nil", msg |-> ""]

ErrNotFound == [id |-> "ErrNotFound", msg |-> "item not found"]

\* errors.New(msg) and fmt.Errorf(msg) without verbs
NewError(msg) == [id |-> "new", msg |-> msg]

\* fmt.Errorf(prefix + "%v", err)
Errorf(prefix, err) == [id |-> "new", msg |-> prefix \o err.msg]

\* errors.Is(err, target)
ErrorsIs(err, target) == err.id = target.id

\* The error the backend client may fail any call with.
BackendErrs == { [id |-> "backend", msg |-> "connection refused"] }

\* The failure of a type assertion or a nil dereference while decoding.
Panic == [id |-> "panic", msg |-> "runtime error"]

----------------------------------------------------------------------------
(* Path and policy formatting *)

\* fmt.Sprintf("%s-%s", vaultProjectPrefix, name): the policy's name
PolicyName(name) == vaultProjectPrefix \o <<"-">> \o name

genProjectAppRole(name) ==
    vaultAppRolePrefix \o <<"/">> \o vaultProjectPrefix \o <<"-">> \o name

\* fmt.Sprintf("%s-%s-target-%s", vaultProjectPrefix, projectName, targetName)
TargetRoleName(projectName, targetName) ==
    vaultProjectPrefix \o <<"-">> \o projectName \o TargetInfix \o targetName

\* fmt.Sprintf("aws/roles/%s-%s-target-%s", ...)
TargetPath(projectName, targetName) ==
    AwsRolesPath \o TargetRoleName(projectName, targetName)

\* The policy text without the project's name in it.
defaultVaultReadonlyPolicyAWS_AnyProject(projectName) ==
    <<"p","a","t","h"," ","\"">> \o AwsStsPath
        \o vaultProjectPrefix \o <<"-">> \o <<"*">> \o TargetInfix
        \o <<"*","\""," ","{"," ","c","a","p","a","b","i","l","i","t","i","e","s",
             " ","="," ","[","\"","r","e","a","d","\"","]"," ","}">>

defaultVaultReadonlyPolicyAWS(projectName) ==
    <<"p","a","t","h"," ","\"">> \o AwsStsPath
        \o vaultProjectPrefix \o <<"-">> \o projectName \o TargetInfix
        \o <<"*","\""," ","{"," ","c","a","p","a","b","i","l","i","t","i","e","s",
             " ","="," ","[","\"","r","e","a","d","\"","]"," ","}">>

\* fmt.Sprintf(`{"name":"%s"}`, projectName)
ProjectDescriptor(projectName) ==
    <<"{","\"","n","a","m","e","\"",":","\"">> \o projectName \o <<"\"","}">>

----------------------------------------------------------------------------
(* Authorization and the provider bound to it *)

\* The process-wide admin secret AuthorizedAdmin is called with.
AdminSecret == <<"s","3","c","r","e","t">>

IsAdmin(a) == a.Key = AdminKey

AuthorizedAdmin(a, adminSecret) == IsAdmin(a) /\ a.Secret = adminSecret

\* The key and the secret bound the wrong way round.
NewVaultProvider_Swapped(a) == [roleID |-> a.Secret, secretID |-> a.Key]

NewVaultProvider(a) == [roleID |-> a.Key, secretID |-> a.Secret]

\* A gate that lets every caller with a key through.
isAdmin_AnyKey(v) == v.roleID /= <<>>

isAdmin(v) == v.roleID = AdminKey

----------------------------------------------------------------------------
(* The secret backend (vaultLogical, vaultSys).  A call takes the backend  *)
(* state b and the error e the backend fails it with (Nil: it succeeds);   *)
(* a failed call changes nothing.  It yields the new state, the            *)
(* *vault.Secret and the error.                                            *)

Put(f, k, x) == [y \in DOMAIN f \cup {k} |-> IF y = k THEN x ELSE f[y]]

Remove(f, k) == [y \in DOMAIN f \ {k} |-> f[y]]

NilSecret == [isNil |-> TRUE, Data |-> <<>>, Auth |-> <<>>]

Secret(data) == [isNil |-> FALSE, Data |-> data, Auth |-> <<>>]

AuthSecret(auth) == [isNil |-> FALSE, Data |-> <<>>, Auth |-> auth]

Resp(b, sec, err) == [b |-> b, sec |-> sec, err |-> err]

\* The ids the backend generates for the AppRole at path p.
RoleIdFor(p) == <<"role-id:">> \o p

SecretIdFor(p, k) == <<"secret-id:", ToString(k), ":">> \o p

TokenFor(p) == <<"token:">> \o p

IsAppRolePath(p) == HasPrefix(p, vaultAppRolePrefix \o <<"/">>)

\* The login endpoint: a token carrying the policies of the AppRole the
\* (role_id, secret_id) pair belongs to.
Login(b, data) ==
    LET roles == { p \in DOMAIN b.secretIds :
                     /\ data.role_id = RoleIdFor(p)
                     /\ \E k \in 1..b.secretIds[p] :
                            data.secret_id = SecretIdFor(p, k) }
    IN  IF roles = {}
        THEN Resp(b, NilSecret,
                  [id |-> "backend", msg |-> "invalid role or secret ID"])
        ELSE LET p == CHOOSE q \in roles : TRUE
             IN  Resp(b, AuthSecret([ClientToken |-> TokenFor(p),
                                     Policies |-> <<b.store[p].token_policies>>,
                                     NoDefaultPolicy |->
                                         b.store[p].token_no_default_policy]),
                      Nil)

\* Write on .../secret-id: a new secret id of the AppRole.
GenerateSecretId(b, role) ==
    IF role \notin DOMAIN b.secretIds
    THEN Resp(b, NilSecret, [id |-> "backend", msg |-> "role not found"])
    ELSE LET k == b.secretIds[role] + 1
         IN  Resp([b EXCEPT !.secretIds[role] = k],
                  Secret([secret_id |-> SecretIdFor(role, k)]), Nil)

LogicalWrite(b, path, data, e) ==
    IF e /= Nil THEN Resp(b, NilSecret, e)
    ELSE IF path = LoginPath THEN Login(b, data)
    ELSE IF IsAppRolePath(path) /\ HasSuffix(path, SecretIdSuffix)
    THEN GenerateSecretId(b, TrimSuffix(path, SecretIdSuffix))
    ELSE Resp([b EXCEPT
                 !.store = Put(@, path, data),
                 !.secretIds = IF IsAppRolePath(path) /\ path \notin DOMAIN @
                               THEN Put(@, path, 0) ELSE @],
              NilSecret, Nil)

LogicalRead(b, path, e) ==
    IF e /= Nil THEN Resp(b, NilSecret, e)
    ELSE IF IsAppRolePath(path) /\ HasSuffix(path, RoleIdSuffix)
    THEN LET role == TrimSuffix(path, RoleIdSuffix)
         IN  IF role \in DOMAIN b.store
             THEN Resp(b, Secret([role_id |-> RoleIdFor(role)]), Nil)
             ELSE Resp(b, NilSecret, Nil)
    ELSE IF path \in DOMAIN b.store
    THEN Resp(b, Secret(b.store[path]), Nil)
    ELSE Resp(b, NilSecret, Nil)

LogicalDelete(b, path, e) ==
    IF e /= Nil THEN Resp(b, NilSecret, e)
    ELSE Resp([b EXCEPT !.store = Remove(@, path),
                        !.secretIds = Remove(@, path)],
              NilSecret, Nil)

\* The keys below path; the backend lists them in the order `order`, a
\* sequence enumerating them.  No key at all: a nil secret.
ListKeys(b, path) ==
    { TrimPrefix(p, path) : p \in { q \in DOMAIN b.store : HasPrefix(q, path) } }

LogicalList(b, path, order, e) ==
    IF e /= Nil THEN Resp(b, NilSecret, e)
    ELSE IF ListKeys(b, path) = {} THEN Resp(b, NilSecret, Nil)
    ELSE Resp(b, Secret([keys |-> order]), Nil)

SysPutPolicy(b, name, rules, e) ==
    IF e /= Nil THEN Resp(b, NilSecret, e)
    ELSE Resp([b EXCEPT !.policies = Put(@, name, rules)], NilSecret, Nil)

SysDeletePolicy(b, name, e) ==
    IF e /= Nil THEN Resp(b, NilSecret, e)
    ELSE Resp([b EXCEPT !.policies = Remove(@, name)], NilSecret, Nil)

\* One entry of the call trace.
Call(fn, path, data, r) ==
    [fn |-> fn, path |-> path, data |-> data, sec |-> r.sec, err |-> r.err]

----------------------------------------------------------------------------
(* The provider's methods.  Each takes the provider v, the backend state   *)
(* b, its arguments, and the plan of backend failures: the index `fail`    *)
(* of the backend call that fails (0: none) and the error e it fails       *)
(* with.  Each yields the backend state after it, the trace of backend     *)
(* calls it made, and its result (val, err).                               *)

Inject(fail, k, e) == IF fail = k THEN e ELSE Nil

Result(b, cs, val, err) == [b |-> b, calls |-> cs, val |-> val, err |-> err]

EmptyString == <<>>

\* The policy write with its error dropped.
createPolicyState_ErrorDropped(b, name, policy, e) ==
    LET r == SysPutPolicy(b, PolicyName(name), policy, e)
    IN  Result(r.b, <<Call("PutPolicy", PolicyName(name), policy, r)>>,
               EmptyString, Nil)

createPolicyState(b, name, policy, e) ==
    LET r == SysPutPolicy(b, PolicyName(name), policy, e)
    IN  Result(r.b, <<Call("PutPolicy", PolicyName(name), policy, r)>>,
               EmptyString, r.err)

\* The policy deletion with its error dropped.
deletePolicyState_ErrorDropped(b, name, e) ==
    LET r == SysDeletePolicy(b, PolicyName(name), e)
    IN  Result(r.b, <<Call("DeletePolicy", PolicyName(name), <<>>, r)>>,
               EmptyString, Nil)

deletePolicyState(b, name, e) ==
    LET r == SysDeletePolicy(b, PolicyName(name), e)
    IN  Result(r.b, <<Call("DeletePolicy", PolicyName(name), <<>>, r)>>,
               EmptyString, r.err)

\* The identity written with the namespace prefix alone as its policy.
ProjectOptions_SharedPolicy(name) ==
    [ secret_id_ttl           |-> vaultSecretTTL,
      token_max_ttl           |-> vaultTokenMaxTTL,
      token_no_default_policy |-> "true",
      token_num_uses          |-> vaultTokenNumUses,
      token_policies          |-> vaultProjectPrefix ]

ProjectOptions(name) ==
    [ secret_id_ttl           |-> vaultSecretTTL,
      token_max_ttl           |-> vaultTokenMaxTTL,
      token_no_default_policy |-> "true",
      token_num_uses          |-> vaultTokenNumUses,
      token_policies          |-> PolicyName(name) ]

writeProjectState(b, name, e) ==
    LET r == LogicalWrite(b, genProjectAppRole(name), ProjectOptions(name), e)
    IN  Result(r.b,
               <<Call("Write", genProjectAppRole(name), ProjectOptions(name), r)>>,
               EmptyString, r.err)

readRoleID(b, appRoleName, e) ==
    LET path == genProjectAppRole(appRoleName) \o RoleIdSuffix
        r    == LogicalRead(b, path, e)
        cs   == <<Call("Read", path, <<>>, r)>>
    IN  IF r.err /= Nil THEN Result(r.b, cs, EmptyString, r.err)
        ELSE IF r.sec.isNil THEN Result(r.b, cs, EmptyString, Panic)
        ELSE Result(r.b, cs, r.sec.Data.role_id, Nil)

readSecretID(b, appRoleName, e) ==
    LET path    == genProjectAppRole(appRoleName) \o SecretIdSuffix
        options == [force |-> TRUE]
        r       == LogicalWrite(b, path, options, e)
        cs      == <<Call("Write", path, options, r)>>
    IN  IF r.err /= Nil THEN Result(r.b, cs, EmptyString, r.err)
        ELSE IF r.sec.isNil THEN Result(r.b, cs, EmptyString, Panic)
        ELSE Result(r.b, cs, r.sec.Data.secret_id, Nil)

NoCredentials == <<EmptyString, EmptyString>>

\* createProject reading the role id before it generates the secret id.
CreateProjectRun_RoleIdFirst(v, b, name, fail, e) ==
    IF ~isAdmin(v)
    THEN Result(b, <<>>, NoCredentials,
                NewError("admin credentials must be used to create project"))
    ELSE
    LET policy == defaultVaultReadonlyPolicyAWS(name)
        r1 == createPolicyState(b, name, policy, Inject(fail, 1, e))
    IN  IF r1.err /= Nil
        THEN Result(r1.b, r1.calls, NoCredentials, r1.err)
        ELSE
    LET r2 == writeProjectState(r1.b, name, Inject(fail, 2, e))
        c2 == r1.calls \o r2.calls
    IN  IF r2.err /= Nil
        THEN Result(r2.b, c2, NoCredentials, r2.err)
        ELSE
    LET r3 == readRoleID(r2.b, name, Inject(fail, 3, e))
        c3 == c2 \o r3.calls
    IN  IF r3.err /= Nil
        THEN Result(r3.b, c3, NoCredentials, r3.err)
        ELSE
    LET r4 == readSecretID(r3.b, name, Inject(fail, 4, e))
        c4 == c3 \o r4.calls
    IN  IF r4.err /= Nil
        THEN Result(r4.b, c4, NoCredentials, r4.err)
        ELSE Result(r4.b, c4, <<r3.val, r4.val>>, Nil)

CreateProjectRun(v, b, name, fail, e) ==
    IF ~isAdmin(v)
    THEN Result(b, <<>>, NoCredentials,
                NewError("admin credentials must be used to create project"))
    ELSE
    LET policy == defaultVaultReadonlyPolicyAWS(name)
        r1 == createPolicyState(b, name, policy, Inject(fail, 1, e))
    IN  IF r1.err /= Nil
        THEN Result(r1.b, r1.calls, NoCredentials, r1.err)
        ELSE
    LET r2 == writeProjectState(r1.b, name, Inject(fail, 2, e))
        c2 == r1.calls \o r2.calls
    IN  IF r2.err /= Nil
        THEN Result(r2.b, c2, NoCredentials, r2.err)
        ELSE
    LET r3 == readSecretID(r2.b, name, Inject(fail, 3, e))
        c3 == c2 \o r3.calls
    IN  IF r3.err /= Nil
        THEN Result(r3.b, c3, NoCredentials, r3.err)
        ELSE
    LET r4 == readRoleID(r3.b, name, Inject(fail, 4, e))
        c4 == c3 \o r4.calls
    IN  IF r4.err /= Nil
        THEN Result(r4.b, c4, NoCredentials, r4.err)
        ELSE Result(r4.b, c4, <<r4.val, r3.val>>, Nil)

\* deleteProject that stops after the policy.
DeleteProjectRun_PolicyOnly(v, b, name, fail, e) ==
    IF ~isAdmin(v)
    THEN Result(b, <<>>, <<>>,
                NewError("admin credentials must be used to delete project"))
    ELSE
    LET r1 == deletePolicyState(b, name, Inject(fail, 1, e))
    IN  IF r1.err /= Nil
        THEN Result(r1.b, r1.calls, <<>>,
                    Errorf("vault delete project error: ", r1.err))
        ELSE Result(r1.b, r1.calls, <<>>, Nil)

DeleteProjectRun(v, b, name, fail, e) ==
    IF ~isAdmin(v)
    THEN Result(b, <<>>, <<>>,
                NewError("admin credentials must be used to delete project"))
    ELSE
    LET r1 == deletePolicyState(b, name, Inject(fail, 1, e))
    IN  IF r1.err /= Nil
        THEN Result(r1.b, r1.calls, <<>>,
                    Errorf("vault delete project error: ", r1.err))
        ELSE
    LET r2 == LogicalDelete(r1.b, genProjectAppRole(name), Inject(fail, 2, e))
        c2 == r1.calls \o <<Call("Delete", genProjectAppRole(name), <<>>, r2)>>
    IN  IF r2.err /= Nil
        THEN Result(r2.b, c2, <<>>,
                    Errorf("vault delete project error: ", r2.err))
        ELSE Result(r2.b, c2, <<>>, Nil)

\* getProject without the check for an absent identity.
GetProjectRun_NilIsFound(v, b, projectName, fail, e) ==
    LET path == genProjectAppRole(projectName)
        r    == LogicalRead(b, path, Inject(fail, 1, e))
        cs   == <<Call("Read", path, <<>>, r)>>
    IN  IF r.err /= Nil
        THEN Result(r.b, cs, EmptyString,
                    Errorf("vault get project error: ", r.err))
        ELSE Result(r.b, cs, ProjectDescriptor(projectName), Nil)

GetProjectRun(v, b, projectName, fail, e) ==
    LET path == genProjectAppRole(projectName)
        r    == LogicalRead(b, path, Inject(fail, 1, e))
        cs   == <<Call("Read", path, <<>>, r)>>
    IN  IF r.err /= Nil
        THEN Result(r.b, cs, EmptyString,
                    Errorf("vault get project error: ", r.err))
        ELSE IF r.sec.isNil
        THEN Result(r.b, cs, EmptyString, ErrNotFound)
        ELSE Result(r.b, cs, ProjectDescriptor(projectName), Nil)

ProjectExistsRun(v, b, name, fail, e) ==
    LET g == GetProjectRun(v, b, name, fail, e)
    IN  IF ErrorsIs(g.err, ErrNotFound)
        THEN Result(g.b, g.calls, FALSE, Nil)
        ELSE IF g.err /= Nil
        THEN Result(g.b, g.calls, FALSE, g.err)
        ELSE Result(g.b, g.calls, g.val /= EmptyString, Nil)

GetTokenRun(v, b, fail, e) ==
    IF isAdmin(v)
    THEN Result(b, <<>>, EmptyString,
                NewError("admin credentials cannot be used to get tokens"))
    ELSE
    LET options == [role_id |-> v.roleID, secret_id |-> v.secretID]
        r  == LogicalWrite(b, LoginPath, options, Inject(fail, 1, e))
        cs == <<Call("Write", LoginPath, options, r)>>
    IN  IF r.err /= Nil THEN Result(r.b, cs, EmptyString, r.err)
        ELSE IF r.sec.isNil THEN Result(r.b, cs, EmptyString, Panic)
        ELSE Result(r.b, cs, r.sec.Auth.ClientToken, Nil)

----------------------------------------------------------------------------
(* Targets.  The values of a backend data map are Go interface{} values:   *)
(* a value with its dynamic type, which the type assertions of GetTarget   *)
(* depend on.  A Go slice is nil or a sequence.                            *)

NilSlice == [isNil |-> TRUE, elems |-> <<>>]

Slice(xs) == [isNil |-> FALSE, elems |-> xs]

GoString(x) == [type |-> "string", val |-> x]

GoStringSlice(sl) == [type |-> "[]string", val |-> sl]

GoList(xs) == [type |-> "[]interface{}", val |-> xs]

TargetProperties(credentialType, policyArns, roleArn) ==
    [CredentialType |-> credentialType, PolicyArns |-> policyArns,
     RoleArn |-> roleArn]

ZeroTargetProperties == TargetProperties(EmptyString, NilSlice, EmptyString)

TargetOptions(ctr) ==
    [ role_arns       |-> GoString(ctr.Properties.RoleArn),
      credential_type |-> GoString(ctr.Properties.CredentialType),
      policy_arns     |-> GoStringSlice(ctr.Properties.PolicyArns) ]

\* What the backend client hands back for a stored target entry: the map
\* as it was written ("written"), or the map after the backend's
\* normalisation and the JSON transport ("normalized": role_arns and
\* policy_arns are lists of strings).
ReadShapes == {"written", "normalized"}

Shaped(data, shape) ==
    IF shape = "written" THEN data
    ELSE [ role_arns       |-> GoList(<<data.role_arns>>),
           credential_type |-> data.credential_type,
           policy_arns     |->
               GoList([i \in 1..Len(data.policy_arns.val.elems) |->
                          GoString(data.policy_arns.val.elems[i])]) ]

CreateTargetRun(v, b, projectName, ctr, fail, e) ==
    IF ~isAdmin(v)
    THEN Result(b, <<>>, <<>>,
                NewError("admin credentials must be used to create target"))
    ELSE
    LET path == TargetPath(projectName, ctr.Name)
        r    == LogicalWrite(b, path, TargetOptions(ctr), Inject(fail, 1, e))
    IN  Result(r.b, <<Call("Write", path, TargetOptions(ctr), r)>>, <<>>, r.err)

DeleteTargetRun_AbsentIsError(v, b, projectName, targetName, fail, e) ==
    IF ~isAdmin(v)
    THEN Result(b, <<>>, <<>>,
                NewError("admin credentials must be used to delete target"))
    ELSE
    LET path == TargetPath(projectName, targetName)
        r    == LogicalDelete(b, path, Inject(fail, 1, e))
    IN  IF r.err = Nil /\ path \notin DOMAIN b.store
        THEN Result(r.b, <<Call("Delete", path, <<>>, r)>>, <<>>,
                    NewError("target not found"))
        ELSE Result(r.b, <<Call("Delete", path, <<>>, r)>>, <<>>, r.err)

DeleteTargetRun(v, b, projectName, targetName, fail, e) ==
    IF ~isAdmin(v)
    THEN Result(b, <<>>, <<>>,
                NewError("admin credentials must be used to delete target"))
    ELSE
    LET path == TargetPath(projectName, targetName)
        r    == LogicalDelete(b, path, Inject(fail, 1, e))
    IN  Result(r.b, <<Call("Delete", path, <<>>, r)>>, <<>>, r.err)

\* The decoding of GetTarget: each type assertion panics on another type.
DecodeTarget(data) ==
    IF \/ data.role_arns.type /= "[]interface{}"
       \/ Len(data.role_arns.val) = 0
       \/ data.role_arns.val[1].type /= "string"
       \/ data.policy_arns.type /= "[]interface{}"
       \/ data.credential_type.type /= "string"
       \/ \E i \in 1..Len(data.policy_arns.val) :
              data.policy_arns.val[i].type /= "string"
    THEN [val |-> ZeroTargetProperties, err |-> Panic]
    ELSE LET arns == data.policy_arns.val
             appended == IF Len(arns) = 0 THEN NilSlice
                         ELSE Slice([i \in 1..Len(arns) |-> arns[i].val])
         IN  [val |-> TargetProperties(data.credential_type.val, appended,
                                       data.role_arns.val[1].val),
              err |-> Nil]

GetTargetRun(v, b, projectName, targetName, shape, fail, e) ==
    IF ~isAdmin(v)
    THEN Result(b, <<>>, ZeroTargetProperties,
                NewError("admin credentials must be used to get target information"))
    ELSE
    LET path == AwsRolesPath \o vaultProjectPrefix \o <<"-">> \o projectName
                    \o TargetInfix \o targetName
        r    == LogicalRead(b, path, Inject(fail, 1, e))
        cs   == <<Call("Read", path, <<>>, r)>>
    IN  IF r.err /= Nil
        THEN Result(r.b, cs, ZeroTargetProperties,
                    Errorf("vault get target error: ", r.err))
        ELSE IF r.sec.isNil
        THEN Result(r.b, cs, ZeroTargetProperties, NewError("target not found"))
        ELSE LET d == DecodeTarget(Shaped(r.sec.Data, shape))
             IN  Result(r.b, cs, d.val, d.err)

\* The sequences that enumerate the set S once each.
Orders(S) ==
    { o \in [1..Cardinality(S) -> S] :
        \A i, j \in 1..Cardinality(S) : i /= j => o[i] /= o[j] }

ListTargetsRun_NoFilter(v, b, project, order, fail, e) ==
    IF ~isAdmin(v)
    THEN Result(b, <<>>, NilSlice,
                NewError("admin credentials must be used to list targets"))
    ELSE
    LET r  == LogicalList(b, AwsRolesPath, order, Inject(fail, 1, e))
        cs == <<Call("List", AwsRolesPath, <<>>, r)>>
    IN  IF r.err /= Nil
        THEN Result(r.b, cs, NilSlice, Errorf("vault list error: ", r.err))
        ELSE IF r.sec.isNil
        THEN Result(r.b, cs, Slice(<<>>), Nil)
        ELSE
    LET prefix == vaultProjectPrefix \o <<"-">> \o project \o TargetInfix
        kept == r.sec.Data.keys
    IN  Result(r.b, cs,
               Slice([i \in 1..Len(kept) |-> Replace1(kept[i], prefix, <<>>)]),
               Nil)

ListTargetsRun(v, b, project, order, fail, e) ==
    IF ~isAdmin(v)
    THEN Result(b, <<>>, NilSlice,
                NewError("admin credentials must be used to list targets"))
    ELSE
    LET r  == LogicalList(b, AwsRolesPath, order, Inject(fail, 1, e))
        cs == <<Call("List", AwsRolesPath, <<>>, r)>>
    IN  IF r.err /= Nil
        THEN Result(r.b, cs, NilSlice, Errorf("vault list error: ", r.err))
        ELSE IF r.sec.isNil
        THEN Result(r.b, cs, Slice(<<>>), Nil)
        ELSE
    LET prefix == vaultProjectPrefix \o <<"-">> \o project \o TargetInfix
        Matches(value) == HasPrefix(value, prefix)
        kept == SelectSeq(r.sec.Data.keys, Matches)
    IN  Result(r.b, cs,
               Slice([i \in 1..Len(kept) |-> Replace1(kept[i], prefix, <<>>)]),
               Nil)

TargetExistsRun(v, b, name) == Result(b, <<>>, FALSE, Nil)

----------------------------------------------------------------------------
(* Inputs *)

\* The Authorizations providers are constructed from: the admin with the
\* admin secret, the admin key with another secret, and tenants holding
\* the role id of one project and a secret id of one project.
TenantAuths ==
    { [Provider |-> <<"v","a","u","l","t">>,
       Key      |-> RoleIdFor(genProjectAppRole(n)),
       Secret   |-> SecretIdFor(genProjectAppRole(m), 1)] :
          n \in ProjectNames, m \in ProjectNames }

AdminAuths ==
    { [Provider |-> <<"v","a","u","l","t">>, Key |-> AdminKey, Secret |-> s] :
          s \in { AdminSecret, <<"w","r","o","n","g">> } }

Auths == AdminAuths \cup TenantAuths

PolicyArnsValues == { NilSlice, Slice(<< <<"p">>, <<"q">> >>) }

CreateTargetRequests ==
    { [Name |-> t,
       Properties |-> TargetProperties(<<"i","a","m">>, arns, <<"r">>),
       Type |-> <<"a","w","s">>] :
          t \in TargetNames, arns \in PolicyArnsValues }

\* A backend call of the operation fails (its index, the error) or none.
FailPlans(n) ==
    { <<0, Nil>> } \cup { <<k, e>> : k \in 1..n, e \in BackendErrs }

----------------------------------------------------------------------------
(* The state machine: a request constructs a provider from its             *)
(* Authorization and calls one method (the whole method is one step: no    *)
(* other request runs in between); Respond hands the result to the caller  *)
(* and the provider is dropped.                                            *)

Backend == [policies |-> policies, store |-> store, secretIds |-> secretIds]

Idle == [op |-> "none", auth |-> <<>>, args |-> <<>>, val |-> <<>>, err |-> Nil]

\* No requests in flight at once; no scripted caller.
NoProcs == [name |-> <<>>]

NoScript == [stage |-> "none"]

Done(op, a, args, r) ==
    /\ policies'  = r.b.policies
    /\ store'     = r.b.store
    /\ secretIds' = r.b.secretIds
    /\ calls'     = r.calls
    /\ ret'       = [op |-> op, auth |-> a, args |-> args,
                     val |-> r.val, err |-> r.err]
    /\ UNCHANGED <<procs, script>>

Init ==
    /\ policies  = <<>>
    /\ store     = <<>>
    /\ secretIds = <<>>
    /\ calls     = <<>>
    /\ ret       = Idle
    /\ procs     = NoProcs
    /\ script    = NoScript

CreateProject ==
    /\ ret = Idle
    /\ \E a \in Auths, name \in ProjectNames, f \in FailPlans(4) :
        /\ IF genProjectAppRole(name) \in DOMAIN secretIds
           THEN secretIds[genProjectAppRole(name)] < MaxSecretIds
           ELSE TRUE
        /\ Done("CreateProject", a, <<name>>,
                CreateProjectRun(NewVaultProvider(a), Backend, name, f[1], f[2]))

DeleteProject ==
    /\ ret = Idle
    /\ \E a \in Auths, name \in ProjectNames, f \in FailPlans(2) :
        Done("DeleteProject", a, <<name>>,
             DeleteProjectRun(NewVaultProvider(a), Backend, name, f[1], f[2]))

GetProject ==
    /\ ret = Idle
    /\ \E a \in Auths, name \in ProjectNames, f \in FailPlans(1) :
        Done("GetProject", a, <<name>>,
             GetProjectRun(NewVaultProvider(a), Backend, name, f[1], f[2]))

ProjectExists ==
    /\ ret = Idle
    /\ \E a \in Auths, name \in ProjectNames, f \in FailPlans(1) :
        Done("ProjectExists", a, <<name>>,
             ProjectExistsRun(NewVaultProvider(a), Backend, name, f[1], f[2]))

GetToken ==
    /\ ret = Idle
    /\ \E a \in Auths, f \in FailPlans(1) :
        Done("GetToken", a, <<>>,
             GetTokenRun(NewVaultProvider(a), Backend, f[1], f[2]))

CreateTarget ==
    /\ ret = Idle
    /\ \E a \in Auths, project \in ProjectNames, ctr \in CreateTargetRequests,
          f \in FailPlans(1) :
        Done("CreateTarget", a, <<project, ctr>>,
             CreateTargetRun(NewVaultProvider(a), Backend, project, ctr,
                             f[1], f[2]))

DeleteTarget ==
    /\ ret = Idle
    /\ \E a \in Auths, project \in ProjectNames, target \in TargetNames,
          f \in FailPlans(1) :
        Done("DeleteTarget", a, <<project, target>>,
             DeleteTargetRun(NewVaultProvider(a), Backend, project, target,
                             f[1], f[2]))

GetTarget ==
    /\ ret = Idle
    /\ \E a \in Auths, project \in ProjectNames, target \in TargetNames,
          shape \in ReadShapes, f \in FailPlans(1) :
        Done("GetTarget", a, <<project, target, shape>>,
             GetTargetRun(NewVaultProvider(a), Backend, project, target, shape,
                          f[1], f[2]))

ListTargets ==
    /\ ret = Idle
    /\ \E a \in Auths, project \in ProjectNames, f \in FailPlans(1),
          order \in Orders(ListKeys(Backend, AwsRolesPath)) :
        Done("ListTargets", a, <<project>>,
             ListTargetsRun(NewVaultProvider(a), Backend, project, order,
                            f[1], f[2]))

TargetExists ==
    /\ ret = Idle
    /\ \E a \in Auths, name \in TargetNames :
        Done("TargetExists", a, <<name>>,
             TargetExistsRun(NewVaultProvider(a), Backend, name))

Respond ==
    /\ ret /= Idle
    /\ ret' = Idle
    /\ calls' = <<>>
    /\ UNCHANGED <<policies, store, secretIds, procs, script>>

Next ==
    \/ CreateProject
    \/ DeleteProject
    \/ GetProject
    \/ ProjectExists
    \/ GetToken
    \/ CreateTarget
    \/ DeleteTarget
    \/ GetTarget
    \/ ListTargets
    \/ TargetExists
    \/ Respond

Spec == Init /\ [][Next]_vars

----------------------------------------------------------------------------
(* Properties *)

AdminOnlyOps ==
    { "CreateProject", "DeleteProject", "CreateTarget", "GetTarget",
      "DeleteTarget", "ListTargets" }

\* The permission-denied error of each operation.
PermissionDenied(op) ==
    CASE op = "CreateProject" ->
            NewError("admin credentials must be used to create project")
      [] op = "DeleteProject" ->
            NewError("admin credentials must be used to delete project")
      [] op = "CreateTarget" ->
            NewError("admin credentials must be used to create target")
      [] op = "GetTarget" ->
            NewError("admin credentials must be used to get target information")
      [] op = "DeleteTarget" ->
            NewError("admin credentials must be used to delete target")
      [] op = "ListTargets" ->
            NewError("admin credentials must be used to list targets")
      [] op = "GetToken" ->
            NewError("admin credentials cannot be used to get tokens")
      [] OTHER -> NewError("permission denied")

\* C1: a provider constructed with a key other than "admin" gets the
\* permission-denied error from createProject, deleteProject, createTarget,
\* getTarget, deleteTarget and listTargets, which make no backend call and
\* leave the backend state as it was.
C1_NonAdminDeniedBeforeBackend ==
    [][ (ret'.op \in AdminOnlyOps /\ ret'.auth.Key /= AdminKey)
            => /\ ret'.err = PermissionDenied(ret'.op)
               /\ calls' = <<>>
               /\ UNCHANGED <<policies, store, secretIds>> ]_vars

\* A tenant is refused createTarget while the backend holds a project.
C1_Witness ==
    /\ ret.op = "CreateTarget"
    /\ ret.auth.Key /= AdminKey
    /\ ret.err = PermissionDenied("CreateTarget")
    /\ DOMAIN store /= {}
    /\ DOMAIN policies /= {}

\* C2 (as claimed): the admin-only operations are refused, without a backend
\* call, to every caller that is not an authorized admin (key "admin" and
\* the admin secret), so also to the key "admin" with another secret.
C2_OnlyAuthorizedAdminPasses ==
    (ret.op \in AdminOnlyOps /\ ~AuthorizedAdmin(ret.auth, AdminSecret))
        => /\ ret.err = PermissionDenied(ret.op)
           /\ calls = <<>>

\* C3: getToken with admin credentials is refused without a backend call;
\* with tenant credentials it makes exactly one write to auth/approle/login
\* with role_id the bound key and secret_id the bound secret, and returns
\* the token of the backend's answer, or the backend's error.
C3_GetTokenExchange ==
    ret.op = "GetToken" =>
        IF IsAdmin(ret.auth)
        THEN /\ ret.err = PermissionDenied("GetToken")
             /\ ret.val = EmptyString
             /\ calls = <<>>
        ELSE /\ Len(calls) = 1
             /\ calls[1].fn = "Write"
             /\ calls[1].path = LoginPath
             /\ calls[1].data = [role_id |-> ret.auth.Key,
                                 secret_id |-> ret.auth.Secret]
             /\ IF calls[1].err /= Nil
                THEN ret.err = calls[1].err /\ ret.val = EmptyString
                ELSE ret.err = Nil /\ ret.val = calls[1].sec.Auth.ClientToken

\* A tenant of a created project obtains its token.
C3_Witness ==
    /\ ret.op = "GetToken"
    /\ ~IsAdmin(ret.auth)
    /\ ret.err = Nil
    /\ ret.val /= EmptyString

\* C4: every stored project identity of name n has the one token policy
\* <prefix>-n, with default policies disabled, and a token obtained with the
\* credential pair of project n carries that policy alone.
C4_IdentityCarriesOwnPolicyOnly ==
    /\ \A n \in ProjectNames :
          genProjectAppRole(n) \in DOMAIN store =>
              /\ store[genProjectAppRole(n)].token_policies = PolicyName(n)
              /\ store[genProjectAppRole(n)].token_no_default_policy = "true"
    /\ \A n \in ProjectNames :
          ( /\ ret.op = "GetToken"
            /\ ret.err = Nil
            /\ ret.auth.Key = RoleIdFor(genProjectAppRole(n)) )
          => /\ calls[1].sec.Auth.Policies = <<PolicyName(n)>>
             /\ calls[1].sec.Auth.NoDefaultPolicy = "true"

\* Both projects exist and a tenant of one has exchanged its pair.
C4_Witness ==
    /\ \A n \in ProjectNames : genProjectAppRole(n) \in DOMAIN store
    /\ ret.op = "GetToken"
    /\ ret.err = Nil

\* The path pattern of a policy: the text between its first two quotes.
PolicyPathPattern(rules) ==
    LET q1   == Index(rules, <<"\"">>)
        rest == SubSeq(rules, q1 + 1, Len(rules))
    IN  SubSeq(rest, 1, Index(rest, <<"\"">>) - 1)

\* A pattern ending in * matches the paths it is a prefix of.
PathMatches(pattern, path) ==
    IF HasSuffix(pattern, <<"*">>)
    THEN HasPrefix(path, TrimSuffix(pattern, <<"*">>))
    ELSE path = pattern

\* C5 (as claimed): the policy of project p grants nothing of another
\* project: no stored target (q, t) with q /= p has a role name that matches
\* the path pattern written into p's stored policy.
C5_PolicyMatchesOwnTargetsOnly ==
    \A p \in ProjectNames, q \in ProjectNames, t \in TargetNames :
        ( /\ p /= q
          /\ PolicyName(p) \in DOMAIN policies
          /\ TargetPath(q, t) \in DOMAIN store )
        => ~PathMatches(PolicyPathPattern(policies[PolicyName(p)]),
                        AwsStsPath \o TargetRoleName(q, t))

\* C6 (as claimed): getProject and projectExists are refused to a provider
\* bound to non-admin credentials, without a backend read.
C6_ProjectReadsAreGated ==
    (ret.op \in {"GetProject", "ProjectExists"} /\ ret.auth.Key /= AdminKey)
        => /\ ret.err \notin {Nil, ErrNotFound}
           /\ calls = <<>>

\* The (fn, path) of each call of the trace.
CallSteps(cs) == [i \in 1..Len(cs) |-> <<cs[i].fn, cs[i].path>>]

\* C7: an admin's createProject succeeds only when its four backend calls
\* succeed; a failed call is the last one made, its error is returned with
\* empty roleID and secretID, no call is made twice, nothing is deleted, and
\* what the earlier calls wrote stays in the backend.
C7_CreateProjectFailsFast ==
    (ret.op = "CreateProject" /\ IsAdmin(ret.auth)) =>
        LET k    == Len(calls)
            name == ret.args[1]
        IN  /\ k \in 1..4
            /\ \A i \in 1..(k - 1) : calls[i].err = Nil
            /\ \A i, j \in 1..k :
                   i /= j => CallSteps(calls)[i] /= CallSteps(calls)[j]
            /\ \A i \in 1..k : calls[i].fn \notin {"Delete", "DeletePolicy"}
            /\ ret.err = calls[k].err
            /\ IF ret.err = Nil
               THEN /\ k = 4
                    /\ ret.val[1] /= EmptyString
                    /\ ret.val[2] /= EmptyString
               ELSE ret.val = NoCredentials
            /\ k >= 2 =>
                   /\ PolicyName(name) \in DOMAIN policies
                   /\ policies[PolicyName(name)]
                          = defaultVaultReadonlyPolicyAWS(name)
            /\ k >= 3 => genProjectAppRole(name) \in DOMAIN store

\* The identity write of createProject failed on an empty backend: the
\* policy it wrote before is there, the identity is not.
C7_Witness ==
    /\ ret.op = "CreateProject"
    /\ IsAdmin(ret.auth)
    /\ Len(calls) = 2
    /\ ret.err /= Nil
    /\ PolicyName(ret.args[1]) \in DOMAIN policies
    /\ genProjectAppRole(ret.args[1]) \notin DOMAIN store

\* The backend calls of createProject(name), in the order of the code.
CreateProjectSteps(name) ==
    << <<"PutPolicy", PolicyName(name)>>,
       <<"Write", genProjectAppRole(name)>>,
       <<"Write", genProjectAppRole(name) \o SecretIdSuffix>>,
       <<"Read", genProjectAppRole(name) \o RoleIdSuffix>> >>

\* C8 (as claimed): createProject reads the roleID before it generates the
\* secretID, so a failed roleID read is preceded by no secretID generation.
C8_RoleIdReadBeforeSecretId ==
    (ret.op = "CreateProject" /\ IsAdmin(ret.auth)) =>
        \A i, j \in 1..Len(calls) :
            ( /\ CallSteps(calls)[i] = CreateProjectSteps(ret.args[1])[4]
              /\ CallSteps(calls)[j] = CreateProjectSteps(ret.args[1])[3] )
            => i < j

\* C8 (amended): createProject calls the backend in the order policy write,
\* identity write, secretID generation, roleID read; a failed roleID read
\* leaves the secretID generated just before it in the backend.
C8_SecretIdBeforeRoleIdRead ==
    (ret.op = "CreateProject" /\ IsAdmin(ret.auth)) =>
        LET name == ret.args[1]
            role == genProjectAppRole(name)
        IN  /\ CallSteps(calls)
                   = SubSeq(CreateProjectSteps(name), 1, Len(calls))
            /\ (Len(calls) = 4 /\ calls[4].err /= Nil) =>
                   /\ role \in DOMAIN secretIds
                   /\ secretIds[role] >= 1
                   /\ calls[3].sec.Data.secret_id
                          = SecretIdFor(role, secretIds[role])

\* The roleID read of createProject failed after the secretID generation.
C8_Witness ==
    /\ ret.op = "CreateProject"
    /\ IsAdmin(ret.auth)
    /\ Len(calls) = 4
    /\ calls[4].err /= Nil
    /\ secretIds[genProjectAppRole(ret.args[1])] = 1

\* C9: an admin's deleteProject deletes the policy, then the identity; a
\* failed policy deletion ends it with the identity untouched; each failure
\* is returned as "vault delete project error: <cause>"; on success neither
\* the policy nor the identity of the project remains.
C9_DeleteProjectOrder ==
    [][ (ret'.op = "DeleteProject" /\ IsAdmin(ret'.auth)) =>
          LET name == ret'.args[1]
              role == genProjectAppRole(name)
          IN  /\ Len(calls') \in 1..2
              /\ CallSteps(calls')[1] = <<"DeletePolicy", PolicyName(name)>>
              /\ IF calls'[1].err /= Nil
                 THEN /\ Len(calls') = 1
                      /\ ret'.err = [id |-> "new",
                                     msg |-> "vault delete project error: "
                                                \o calls'[1].err.msg]
                      /\ UNCHANGED <<policies, store, secretIds>>
                 ELSE /\ Len(calls') = 2
                      /\ CallSteps(calls')[2] = <<"Delete", role>>
                      /\ PolicyName(name) \notin DOMAIN policies'
                      /\ IF calls'[2].err /= Nil
                         THEN /\ ret'.err =
                                    [id |-> "new",
                                     msg |-> "vault delete project error: "
                                                \o calls'[2].err.msg]
                              /\ UNCHANGED <<store, secretIds>>
                         ELSE /\ ret'.err = Nil
                              /\ role \notin DOMAIN store'
                              /\ role \notin DOMAIN secretIds' ]_vars

\* The policy deletion of an existing project failed: its identity stays.
C9_Witness ==
    /\ ret.op = "DeleteProject"
    /\ IsAdmin(ret.auth)
    /\ Len(calls) = 1
    /\ ret.err /= Nil
    /\ genProjectAppRole(ret.args[1]) \in DOMAIN store
    /\ PolicyName(ret.args[1]) \in DOMAIN policies

\* C10 (as claimed): when the backend read fails, projectExists returns the
\* very error the backend produced.
C10_BackendErrorUnchanged ==
    (ret.op = "ProjectExists" /\ Len(calls) = 1 /\ calls[1].err /= Nil)
        => ret.err = calls[1].err

\* C10 (amended): projectExists reads the project identity once; it returns
\* (false, nil) when the read yields no value, (true, nil) when it yields
\* one, and when the read fails (false, err) with err a new error whose
\* message is "vault get project error: " and the backend error's message.
C10_ProjectExistsMapping ==
    ret.op = "ProjectExists" =>
        /\ Len(calls) = 1
        /\ CallSteps(calls)[1] = <<"Read", genProjectAppRole(ret.args[1])>>
        /\ IF calls[1].err /= Nil
           THEN /\ ret.val = FALSE
                /\ ret.err = [id |-> "new",
                              msg |-> "vault get project error: "
                                         \o calls[1].err.msg]
           ELSE /\ ret.err = Nil
                /\ ret.val = (genProjectAppRole(ret.args[1]) \in DOMAIN store)
                /\ ret.val = ~calls[1].sec.isNil

\* The read of an existing project's identity failed under projectExists.
C10_Witness ==
    /\ ret.op = "ProjectExists"
    /\ calls[1].err /= Nil
    /\ ret.err /= Nil
    /\ genProjectAppRole(ret.args[1]) \in DOMAIN store

----------------------------------------------------------------------------
(* Targets *)

\* The properties a stored target entry was written from (TargetOptions
\* read backwards).
WrittenProperties(data) ==
    TargetProperties(data.credential_type.val, data.policy_arns.val,
                     data.role_arns.val)

\* C11: an admin's GetTarget(p, t) after CreateTarget(p, t), against a
\* backend that returns the entry as it was written, succeeds and returns
\* the TargetProperties the entry was written from, field for field.
C11_TargetRoundTrip ==
    ( /\ ret.op = "GetTarget"
      /\ IsAdmin(ret.auth)
      /\ ret.args[3] = "written"
      /\ Len(calls) = 1
      /\ calls[1].err = Nil
      /\ ~calls[1].sec.isNil )
    =>  /\ ret.err = Nil
        /\ ret.val = WrittenProperties(calls[1].sec.Data)

\* The keys of a listing that start with prefix, in the listing's order,
\* each without that leading prefix.
RECURSIVE StripMatching(_, _)
StripMatching(keys, prefix) ==
    IF keys = <<>> THEN <<>>
    ELSE LET rest == StripMatching(Tail(keys), prefix)
         IN  IF HasPrefix(Head(keys), prefix)
             THEN <<TrimPrefix(Head(keys), prefix)>> \o rest
             ELSE rest

\* C12: an admin's listTargets(project) lists "aws/roles/" once and returns
\* exactly the listed keys that start with
\* "argo-cloudops-projects-<project>-target-", each with that prefix
\* stripped once, in the backend's listing order; with no matching key or no
\* listing it returns an empty, non-nil sequence; a failed listing is
\* returned as an error.
C12_ListTargetsFilter ==
    (ret.op = "ListTargets" /\ IsAdmin(ret.auth)) =>
        LET prefix == vaultProjectPrefix \o <<"-">> \o ret.args[1]
                          \o <<"-","t","a","r","g","e","t","-">>
            listed == IF calls[1].sec.isNil THEN <<>>
                      ELSE calls[1].sec.Data.keys
        IN  /\ CallSteps(calls) = << <<"List", AwsRolesPath>> >>
            /\ IF calls[1].err /= Nil
               THEN /\ ret.err /= Nil
                    /\ ret.err.msg = "vault list error: " \o calls[1].err.msg
                    /\ ret.val = NilSlice
               ELSE /\ ret.err = Nil
                    /\ ~ret.val.isNil
                    /\ ret.val.elems = StripMatching(listed, prefix)

\* A listing of three keys of which two belong to the project.
C12_Witness ==
    /\ ret.op = "ListTargets"
    /\ IsAdmin(ret.auth)
    /\ ret.err = Nil
    /\ Len(calls) = 1
    /\ ~calls[1].sec.isNil
    /\ Len(calls[1].sec.Data.keys) = 3
    /\ Len(ret.val.elems) = 2

\* C13: targetExists(name) answers like projectExists: true when an entry
\* of a target of that name is stored (after createTarget, before
\* deleteTarget), false when none is.
C13_TargetExistsReflectsStore ==
    (ret.op = "TargetExists") =>
        /\ ret.err = Nil
        /\ ret.val = (\E p \in ProjectNames :
                          TargetPath(p, ret.args[1]) \in DOMAIN store)

\* C14: an admin's deleteTarget(p, t) whose backend call succeeds returns
\* no error whether or not the entry was stored, and leaves the store
\* without the entry and otherwise as it was; a second deleteTarget(p, t)
\* leaves the same backend state and returns the same result; a following
\* getTarget(p, t) fails with "target not found".
C14_DeleteTargetIdempotent ==
    [][ ( /\ ret'.op = "DeleteTarget"
          /\ IsAdmin(ret'.auth)
          /\ calls'[1].err = Nil )
        =>  LET p     == ret'.args[1]
                t     == ret'.args[2]
                path  == AwsRolesPath \o vaultProjectPrefix \o <<"-">> \o p
                             \o <<"-","t","a","r","g","e","t","-">> \o t
                v     == NewVaultProvider(ret'.auth)
                after == [policies |-> policies', store |-> store',
                          secretIds |-> secretIds']
                again == DeleteTargetRun(v, after, p, t, 0, Nil)
            IN  /\ ret'.err = Nil
                /\ DOMAIN store' = DOMAIN store \ {path}
                /\ \A q \in DOMAIN store' : store'[q] = store[q]
                /\ policies' = policies
                /\ secretIds' = secretIds
                /\ again.b = after
                /\ again.err = ret'.err
                /\ again.val = ret'.val
                /\ \A shape \in ReadShapes :
                       GetTargetRun(v, after, p, t, shape, 0, Nil).err
                           = NewError("target not found")
      ]_vars

\* A deleteTarget that succeeded while another target stays stored.
C14_Witness ==
    /\ ret.op = "DeleteTarget"
    /\ IsAdmin(ret.auth)
    /\ ret.err = Nil
    /\ TargetPath(ret.args[1], ret.args[2]) \notin DOMAIN store
    /\ \E p \in ProjectNames, t \in TargetNames :
           TargetPath(p, t) \in DOMAIN store

----------------------------------------------------------------------------
(* Parsing of the authorization header *)

\* The longest authorization header parsed.
MaxHeaderLen == 6

HeaderChars == {"a", "b", ":"}

Headers == UNION { [1..n -> HeaderChars] : n \in 0..MaxHeaderLen }

\* strings.SplitN with every separator splitting, whatever n is.
RECURSIVE SplitN_NoLimit(_, _, _)
SplitN_NoLimit(s, sep, n) ==
    LET i == Index(s, sep)
    IN  IF i = 0 THEN <<s>>
        ELSE <<SubSeq(s, 1, i - 1)>>
                 \o SplitN_NoLimit(SubSeq(s, i + Len(sep), Len(s)), sep, n)

\* strings.SplitN(s, sep, n) for n > 0 and a non-empty sep: at most n
\* substrings, the last one the unsplit remainder.
RECURSIVE SplitN(_, _, _)
SplitN(s, sep, n) ==
    LET i == Index(s, sep)
    IN  IF n = 1 \/ i = 0 THEN <<s>>
        ELSE <<SubSeq(s, 1, i - 1)>>
                 \o SplitN(SubSeq(s, i + Len(sep), Len(s)), sep, n - 1)

\* *Authorization: nil, or the address of an Authorization.
NilAuthorization == [isNil |-> TRUE]

AddressOf(a) == [isNil |-> FALSE, at |-> a]

NewAuthorization(authorizationHeader) ==
    LET auth == SplitN(authorizationHeader, <<":">>, 3)
    IN  IF \E i \in 1..Len(auth) : auth[i] = EmptyString
        THEN [val |-> NilAuthorization,
              err |-> NewError("invalid authorization header provided")]
        ELSE IF Len(auth) < 3
        THEN [val |-> NilAuthorization,
              err |-> NewError("invalid authorization header provided")]
        ELSE [val |-> AddressOf([Provider |-> auth[1], Key |-> auth[2],
                                 Secret |-> auth[3]]),
              err |-> Nil]

\* A request's authorization header is parsed before any provider exists.
ParseHeader ==
    /\ ret = Idle
    /\ \E header \in Headers :
        ret' = [op |-> "NewAuthorization", auth |-> <<>>,
                args |-> <<header>>,
                val |-> NewAuthorization(header).val,
                err |-> NewAuthorization(header).err]
    /\ UNCHANGED <<policies, store, secretIds, calls, procs, script>>

NextParse ==
    \/ ParseHeader
    \/ Respond

SpecParse == Init /\ [][NextParse]_vars

\* C15: parsing splits the header at its first two ':' only. It succeeds
\* exactly when that gives three non-empty segments, and then returns them
\* as provider, key and secret, the secret keeping every further ':'; any
\* other header (fewer than three segments, an empty segment, the empty
\* string) fails with the invalid-header error and no Authorization.
C15_ParseAuthorization ==
    (ret.op = "NewAuthorization") =>
        LET h      == ret.args[1]
            colons == { k \in 1..Len(h) : h[k] = ":" }
            First(i)  == i \in colons /\ \A k \in colons : i <= k
            Second(i, j) == /\ j \in colons
                            /\ i < j
                            /\ \A k \in colons : k > i => j <= k
            WellFormed == \E i, j \in colons :
                              /\ First(i) /\ Second(i, j)
                              /\ 1 < i /\ i + 1 < j /\ j < Len(h)
        IN  IF WellFormed
            THEN /\ ret.err = Nil
                 /\ ~ret.val.isNil
                 /\ \A i, j \in colons :
                        (First(i) /\ Second(i, j)) =>
                            /\ ret.val.at.Provider = SubSeq(h, 1, i - 1)
                            /\ ret.val.at.Key = SubSeq(h, i + 1, j - 1)
                            /\ ret.val.at.Secret = SubSeq(h, j + 1, Len(h))
            ELSE /\ ret.err.id = "new"
                 /\ ret.err.msg = "invalid authorization header provided"
                 /\ ret.val.isNil

\* A header parsed into a secret that holds a ':'.
C15_Witness ==
    /\ ret.op = "NewAuthorization"
    /\ ret.err = Nil
    /\ \E k \in 1..Len(ret.val.at.Secret) : ret.val.at.Secret[k] = ":"

----------------------------------------------------------------------------
(* Policy synthesis *)

\* C16: the policy text is a function of the project name alone that
\* holds the name and differs for different names; an admin's
\* createProject(name) whose policy write succeeds stores that text under
\* the project's policy name, and where the project's policy was stored
\* already the stored policies stay as they were.
C16_PolicyIsInjectiveInName ==
    [][ ( /\ ret'.op = "CreateProject"
          /\ IsAdmin(ret'.auth)
          /\ Len(calls') >= 1
          /\ calls'[1].err = Nil )
        =>  LET n     == ret'.args[1]
                pn    == vaultProjectPrefix \o <<"-">> \o n
                names == ProjectNames \cup TargetNames \cup {<<>>, <<"*">>}
            IN  /\ pn \in DOMAIN policies'
                /\ calls'[1].data = policies'[pn]
                /\ \E i \in 1..(Len(policies'[pn]) - Len(n) - 1) :
                       /\ SubSeq(policies'[pn], i, i + Len(n) + 1)
                              = <<"-">> \o n \o <<"-">>
                       /\ SubSeq(policies'[pn], 1, i - 1)
                              = <<"p","a","t","h"," ","\"">> \o AwsStsPath
                                    \o vaultProjectPrefix
                /\ \A m \in names :
                       m /= n => defaultVaultReadonlyPolicyAWS(m)
                                     /= policies'[pn]
                /\ pn \in DOMAIN policies => policies' = policies
      ]_vars

\* A second createProject of the same project succeeded.
C16_Witness ==
    /\ ret.op = "CreateProject"
    /\ IsAdmin(ret.auth)
    /\ ret.err = Nil
    /\ secretIds[genProjectAppRole(ret.args[1])] = 2

----------------------------------------------------------------------------
(* CreateProject and DeleteProject of one project in flight at once.  The  *)
(* provider holds no lock, so the backend calls of the two requests        *)
(* interleave; each backend call is one step.  Both requests come from the *)
(* admin, and no failure is injected: a call fails only where the backend  *)
(* itself refuses it.                                                      *)

\* The k-th backend call of CreateProject(name).
CreateProjectStep(b, name, k) ==
    CASE k = 1 -> createPolicyState(b, name,
                                    defaultVaultReadonlyPolicyAWS(name), Nil)
      [] k = 2 -> writeProjectState(b, name, Nil)
      [] k = 3 -> readSecretID(b, name, Nil)
      [] k = 4 -> readRoleID(b, name, Nil)

\* DeleteProject that stops after the policy.
DeleteProjectStep_PolicyOnly(b, name, k) ==
    CASE k = 1 -> deletePolicyState(b, name, Nil)
      [] k = 2 -> Result(b, <<>>, <<>>, Nil)

\* The k-th backend call of DeleteProject(name).
DeleteProjectStep(b, name, k) ==
    CASE k = 1 -> deletePolicyState(b, name, Nil)
      [] k = 2 ->
            LET r == LogicalDelete(b, genProjectAppRole(name), Nil)
            IN  Result(r.b, <<Call("Delete", genProjectAppRole(name), <<>>, r)>>,
                       <<>>, r.err)

\* A request in flight: the backend calls it has made, whether it has
\* returned, and the error it returned.
Started == [pc |-> 0, done |-> FALSE, err |-> Nil]

Midway(p) == p.pc >= 1 /\ ~p.done

\* The request after its k-th call returned r; n is its last call.
Advance(p, k, n, r) ==
    [pc |-> k, done |-> (r.err /= Nil \/ k = n), err |-> r.err]

StartPair ==
    /\ ret = Idle
    /\ procs.name = <<>>
    /\ \E name \in ProjectNames :
        /\ IF genProjectAppRole(name) \in DOMAIN secretIds
           THEN secretIds[genProjectAppRole(name)] < MaxSecretIds
           ELSE TRUE
        /\ isAdmin(NewVaultProvider(CHOOSE a \in AdminAuths : TRUE))
        /\ procs' = [name |-> name, create |-> Started, delete |-> Started,
                     overlap |-> FALSE]
    /\ UNCHANGED <<policies, store, secretIds, calls, ret, script>>

CreateStep ==
    /\ procs.name /= <<>>
    /\ ~procs.create.done
    /\ LET k == procs.create.pc + 1
           r == CreateProjectStep(Backend, procs.name, k)
       IN  /\ policies'  = r.b.policies
           /\ store'     = r.b.store
           /\ secretIds' = r.b.secretIds
           /\ calls'     = calls \o r.calls
           /\ procs' = [procs EXCEPT
                  !.create  = Advance(@, k, 4, r),
                  !.overlap = @ \/ Midway(procs.delete)]
    /\ UNCHANGED <<ret, script>>

DeleteStep ==
    /\ procs.name /= <<>>
    /\ ~procs.delete.done
    /\ LET k == procs.delete.pc + 1
           r == DeleteProjectStep(Backend, procs.name, k)
       IN  /\ policies'  = r.b.policies
           /\ store'     = r.b.store
           /\ secretIds' = r.b.secretIds
           /\ calls'     = calls \o r.calls
           /\ procs' = [procs EXCEPT
                  !.delete  = Advance(@, k, 2, r),
                  !.overlap = @ \/ Midway(procs.create)]
    /\ UNCHANGED <<ret, script>>

\* Both requests have returned.
ReturnPair ==
    /\ procs.name /= <<>>
    /\ procs.create.done
    /\ procs.delete.done
    /\ procs' = NoProcs
    /\ calls' = <<>>
    /\ UNCHANGED <<policies, store, secretIds, ret, script>>

NextConc ==
    \/ StartPair
    \/ CreateStep
    \/ DeleteStep
    \/ ReturnPair

SpecConc == Init /\ [][NextConc]_vars

\* C17: when createProject(n) and deleteProject(n) have both returned and
\* neither made a backend call between two backend calls of the other (a
\* sequential execution), the identity of n exists exactly when its policy
\* does; the state with the identity and without the policy is reached
\* only by interleaved calls.
C17_SequentialKeepsPolicyWithIdentity ==
    ( /\ procs.name /= <<>>
      /\ procs.create.done
      /\ procs.delete.done
      /\ ~procs.overlap )
    =>  /\ procs.create.err = Nil
        /\ procs.delete.err = Nil
        /\ (vaultAppRolePrefix \o <<"/">> \o vaultProjectPrefix \o <<"-">>
                \o procs.name) \in DOMAIN store
               <=> (vaultProjectPrefix \o <<"-">> \o procs.name)
                       \in DOMAIN policies

\* Interleaved, with every backend call succeeding and createProject
\* returning its credentials: the identity exists, the policy does not.
C17_Witness ==
    /\ procs.name /= <<>>
    /\ procs.create.done
    /\ procs.delete.done
    /\ procs.create.err = Nil
    /\ procs.delete.err = Nil
    /\ procs.overlap
    /\ genProjectAppRole(procs.name) \in DOMAIN store
    /\ PolicyName(procs.name) \notin DOMAIN policies

----------------------------------------------------------------------------
(* Targets and their projects *)

\* C18: every stored target entry is the entry of a target (p, t) whose
\* project p has its identity stored.
C18_TargetsBelongToProjects ==
    \A path \in DOMAIN store :
        HasPrefix(path, AwsRolesPath) =>
            \E p \in ProjectNames, t \in TargetNames :
                /\ path = TargetPath(p, t)
                /\ genProjectAppRole(p) \in DOMAIN store

----------------------------------------------------------------------------
(* An admin caller that creates a project, deletes it, and asks whether it *)
(* exists.  Any backend call of the three may fail; a deleteProject that   *)
(* failed is tried again, and a project may be created while the remains   *)
(* of another are still stored.                                            *)

ScriptAuth == CHOOSE a \in AdminAuths : a.Secret = AdminSecret

ScriptCreate ==
    /\ ret = Idle
    /\ procs.name = <<>>
    /\ script.stage \in {"none", "created", "checked"}
    /\ \E name \in ProjectNames, f \in FailPlans(4) :
        /\ IF genProjectAppRole(name) \in DOMAIN secretIds
           THEN secretIds[genProjectAppRole(name)] < MaxSecretIds
           ELSE TRUE
        /\ LET r == CreateProjectRun(NewVaultProvider(ScriptAuth), Backend,
                                     name, f[1], f[2])
           IN  /\ policies'  = r.b.policies
               /\ store'     = r.b.store
               /\ secretIds' = r.b.secretIds
               /\ calls'     = r.calls
               /\ script' = [stage |-> "created", name |-> name,
                             made |-> Len(r.calls), err |-> r.err,
                             exists |-> FALSE, existsErr |-> Nil]
    /\ UNCHANGED <<ret, procs>>

ScriptDelete ==
    /\ script.stage = "created"
    /\ \E f \in FailPlans(2) :
        LET r == DeleteProjectRun(NewVaultProvider(ScriptAuth), Backend,
                                  script.name, f[1], f[2])
        IN  /\ policies'  = r.b.policies
            /\ store'     = r.b.store
            /\ secretIds' = r.b.secretIds
            /\ calls'     = r.calls
            /\ script' = [script EXCEPT
                   !.stage = IF r.err = Nil THEN "deleted" ELSE @]
    /\ UNCHANGED <<ret, procs>>

ScriptExists ==
    /\ script.stage = "deleted"
    /\ \E f \in FailPlans(1) :
        LET r == ProjectExistsRun(NewVaultProvider(ScriptAuth), Backend,
                                  script.name, f[1], f[2])
        IN  /\ policies'  = r.b.policies
            /\ store'     = r.b.store
            /\ secretIds' = r.b.secretIds
            /\ calls'     = r.calls
            /\ script' = [script EXCEPT !.stage = "checked",
                                        !.exists = r.val,
                                        !.existsErr = r.err]
    /\ UNCHANGED <<ret, procs>>

NextScript ==
    \/ ScriptCreate
    \/ ScriptDelete
    \/ ScriptExists

SpecScript == Init /\ [][NextScript]_vars

\* C19: after an admin's createProject(n), failed at any of its calls or
\* succeeded, a deleteProject(n) whose backend calls succeed leaves neither
\* the policy nor the identity of n (nor a secret id of it), and a
\* projectExists(n) whose read succeeds then answers false without error.
C19_DeleteCleansPartialCreate ==
    (script.stage \in {"deleted", "checked"}) =>
        /\ (vaultProjectPrefix \o <<"-">> \o script.name)
               \notin DOMAIN policies
        /\ \A path \in DOMAIN store \cup DOMAIN secretIds :
               ~HasSuffix(path, <<"/">> \o vaultProjectPrefix \o <<"-">>
                                    \o script.name)
        /\ (script.stage = "checked" /\ calls[1].err = Nil) =>
               /\ script.exists = FALSE
               /\ script.existsErr = Nil

\* createProject failed on generating the secret id, after it wrote the
\* policy and the identity; deleteProject then succeeded and projectExists
\* answered.
C19_Witness ==
    /\ script.stage = "checked"
    /\ script.made = 3
    /\ script.err /= Nil
    /\ script.exists = FALSE
    /\ script.existsErr = Nil

----------------------------------------------------------------------------
(* Frame of the target operations *)

\* The names listTargets(project) returns on backend b, as a set.
ListedTargets(v, b, project) ==
    LET order == CHOOSE o \in Orders(ListKeys(b, AwsRolesPath)) : TRUE
        elems == ListTargetsRun(v, b, project, order, 0, Nil).val.elems
    IN  { elems[i] : i \in 1..Len(elems) }

\* C20: an admin's createTarget(p, t) or deleteTarget(p, t) leaves, for
\* every other pair (p2, t2), the stored entry and the result of
\* getTarget(p2, t2) as they were, leaves listTargets(p2) as it was for
\* every project p2 other than p, and leaves the policies, the identities
\* and the secret ids as they were.
C20_TargetOpsTouchOneTarget ==
    [][ ( /\ ret'.op \in {"CreateTarget", "DeleteTarget"}
          /\ IsAdmin(ret'.auth) )
        =>  LET p      == ret'.args[1]
                t      == IF ret'.op = "CreateTarget" THEN ret'.args[2].Name
                          ELSE ret'.args[2]
                v      == NewVaultProvider(ret'.auth)
                before == [policies |-> policies, store |-> store,
                           secretIds |-> secretIds]
                after  == [policies |-> policies', store |-> store',
                           secretIds |-> secretIds']
            IN  /\ \A p2 \in ProjectNames, t2 \in TargetNames :
                       <<p2, t2>> /= <<p, t>> =>
                           /\ TargetPath(p2, t2) \in DOMAIN store'
                                  <=> TargetPath(p2, t2) \in DOMAIN store
                           /\ \A shape \in ReadShapes :
                                  LET g1 == GetTargetRun(v, before, p2, t2,
                                                         shape, 0, Nil)
                                      g2 == GetTargetRun(v, after, p2, t2,
                                                         shape, 0, Nil)
                                  IN  g1.val = g2.val /\ g1.err = g2.err
                /\ \A p2 \in ProjectNames :
                       p2 /= p => ListedTargets(v, after, p2)
                                      = ListedTargets(v, before, p2)
                /\ policies' = policies
                /\ secretIds' = secretIds
                /\ \A n \in ProjectNames :
                       /\ genProjectAppRole(n) \in DOMAIN store'
                              <=> genProjectAppRole(n) \in DOMAIN store
                       /\ genProjectAppRole(n) \in DOMAIN store =>
                              store'[genProjectAppRole(n)]
                                  = store[genProjectAppRole(n)]
      ]_vars

====
